---- MODULE Spec2Model ----
(***************************************************************************)
(* HistoryConsoleWidget (IPython/frontend/qt/console/                      *)
(* history_console_widget.py): the command history of the Qt console, its  *)
(* browsing index, the temporary edits made while browsing and the search  *)
(* prefix of the up/down keys.                                             *)
(*                                                                         *)
(* A Python str is modelled as a sequence of one-character strings, a list *)
(* index i as position i+1 of a sequence, the dict _history_edits as a     *)
(* function whose DOMAIN is the set of its keys.                           *)
(***************************************************************************)
EXTENDS Integers, Sequences, FiniteSets, TLC

\* Bounds of the model.
MaxHist == 2        \* longest history list
MaxLen == 2         \* longest text (input buffer, source, prefix, history item)

IsSpace(c) == c = " "

\* The texts of the model: "", "a", "ab", "aba", ... up to MaxLen characters.
\* Each is a proper prefix of the next, so a prefix search can match a longer
\* text, match an equal one and fail on a shorter one.
Letter(i) == IF i % 2 = 1 THEN "a" ELSE "b"
Text(n) == [i \in 1..n |-> Letter(i)]
Str == {Text(n) : n \in 0..MaxLen}
Logs == UNION {[1..n -> Str] : n \in 0..MaxHist}

\* Python's None where a text is expected: a value that is no text of Str.
None == <<"None">>

\* The source argument of execute(): a text, a text followed by a blank, or
\* None (execute the input buffer).
Sources == Str \cup {Append(t, " ") : t \in Str} \cup {None}

VARIABLES
    history,          \* self._history
    history_edits,    \* self._history_edits
    history_index,    \* self._history_index
    history_prefix,   \* self._history_prefix
    input_buffer,     \* the widget's input_buffer property
    cursor,           \* the widget's cursor column in the input buffer
    last              \* the last call: its name (op), its argument (arg), its
                      \* outcome (result), and the _history_index (from) and
                      \* the text (text: the input buffer, or the line execute
                      \* captured) it started from

vars == <<history, history_edits, history_index, history_prefix,
          input_buffer, cursor, last>>

NoEdits == [k \in {} |-> <<>>]

----------------------------------------------------------------------------
\* Mutant of rstrip: the line is saved as typed.
rstrip_none(s) == s

\* str.rstrip(): drop the trailing whitespace.
RECURSIVE rstrip(_)
rstrip(s) ==
    IF s = <<>> THEN <<>>
    ELSE IF IsSpace(s[Len(s)]) THEN rstrip(SubSeq(s, 1, Len(s) - 1))
    ELSE s

\* Mutant of startswith: the text must equal the prefix.
startswith_equal(s, prefix) == s = prefix

\* str.startswith(prefix)
startswith(s, prefix) ==
    /\ Len(prefix) <= Len(s)
    /\ SubSeq(s, 1, Len(prefix)) = prefix

\* s[:col]
slice_to(s, col) == SubSeq(s, 1, IF col < Len(s) THEN col ELSE Len(s))

\* Mutant of dict item assignment: the other items of d are dropped.
dict_set_only(d, k, v) == [i \in {k} |-> v]

\* dict item assignment d[k] = v
dict_set(d, k, v) == [i \in DOMAIN d \cup {k} |-> IF i = k THEN v ELSE d[i]]

\* _get_edited_history(index) raises IndexError when index is no key of
\* _history_edits and no index of _history.
get_edited_history_raises(index) ==
    /\ index \notin DOMAIN history_edits
    /\ ~(index >= 0 /\ index < Len(history))

\* Mutant of _get_edited_history: the history item wins over the edit.
get_edited_history_item_first(index) ==
    IF 0 <= index /\ index < Len(history) THEN history[index + 1]
    ELSE history_edits[index]

get_edited_history(index) ==
    IF index \in DOMAIN history_edits THEN history_edits[index]
    ELSE history[index + 1]

\* The loop of history_previous: the index it stops at, -1 for the else branch.
RECURSIVE previous_scan(_, _)
previous_scan(index, prefix) ==
    IF index > 0
    THEN IF startswith(get_edited_history(index - 1), prefix) THEN index - 1
         ELSE previous_scan(index - 1, prefix)
    ELSE -1

\* The loop of history_next. Its condition reads self._history_index, which
\* the loop never changes, so once entered it ends only by a match or by the
\* IndexError of _get_edited_history.
RECURSIVE next_scan(_, _)
next_scan(index, prefix) ==
    IF history_index < Len(history)
    THEN IF get_edited_history_raises(index + 1)
         THEN [kind |-> "raised", index |-> index + 1]
         ELSE IF startswith(get_edited_history(index + 1), prefix)
              THEN [kind |-> "found", index |-> index + 1]
              ELSE next_scan(index + 1, prefix)
    ELSE [kind |-> "none", index |-> index]

----------------------------------------------------------------------------
Init ==
    /\ history = <<>>
    /\ history_edits = NoEdits
    /\ history_index = 0
    /\ history_prefix = <<>>
    /\ input_buffer = <<>>
    /\ cursor = 0
    /\ last = [op |-> "init", arg |-> None, result |-> "none", from |-> 0,
               text |-> None]

\* Mutant of history_previous: the index is assigned before the input buffer
\* is saved, so the buffer is saved under the index found.
previous_result_saves_at_found(index, prefix) ==
    LET found == previous_scan(index, prefix) IN
    IF found >= 0
    THEN [result |-> "moved",
          edits |-> dict_set(history_edits, found, input_buffer),
          index |-> found,
          buffer |-> get_edited_history(found)]
    ELSE [result |-> "nomatch", edits |-> history_edits, index |-> index,
          buffer |-> input_buffer]

\* Mutant of history_previous: the input buffer is saved before the search,
\* whether or not it finds an item.
previous_result_saves_first(index, prefix) ==
    LET found == previous_scan(index, prefix) IN
    IF found >= 0
    THEN [result |-> "moved",
          edits |-> dict_set(history_edits, index, input_buffer),
          index |-> found,
          buffer |-> get_edited_history(found)]
    ELSE [result |-> "nomatch",
          edits |-> dict_set(history_edits, index, input_buffer),
          index |-> index, buffer |-> input_buffer]

\* history_previous(prefix) entered with self._history_index = index: the
\* values it leaves in _history_edits, _history_index and input_buffer.
\* _set_edited_input_buffer saves the input buffer under the index being left
\* before the index is assigned.
previous_result(index, prefix) ==
    LET found == previous_scan(index, prefix) IN
    IF found >= 0
    THEN [result |-> "moved",
          edits |-> dict_set(history_edits, index, input_buffer),
          index |-> found,
          buffer |-> get_edited_history(found)]
    ELSE [result |-> "nomatch", edits |-> history_edits, index |-> index,
          buffer |-> input_buffer]

\* history_next(prefix): an IndexError leaves every field as it was.
next_result(prefix) ==
    LET r == next_scan(history_index, prefix) IN
    IF r.kind = "found"
    THEN [result |-> "moved",
          edits |-> dict_set(history_edits, history_index, input_buffer),
          index |-> r.index,
          buffer |-> get_edited_history(r.index)]
    ELSE [result |-> IF r.kind = "raised" THEN "raised" ELSE "nomatch",
          edits |-> history_edits, index |-> history_index,
          buffer |-> input_buffer]

history_previous(prefix) ==
    LET r == previous_result(history_index, prefix) IN
    /\ history_edits' = r.edits
    /\ history_index' = r.index
    /\ input_buffer' = r.buffer
    /\ cursor' = IF r.result = "moved" THEN Len(r.buffer) ELSE cursor
    /\ last' = [op |-> "history_previous", arg |-> prefix, result |-> r.result,
                from |-> history_index, text |-> input_buffer]
    /\ UNCHANGED <<history, history_prefix>>

\* Mutant of history_next: the input buffer is saved in the history item
\* being left, not in the edits.
history_next_writes_back(prefix) ==
    LET r == next_result(prefix) IN
    /\ history' = IF r.result = "moved"
                  THEN [history EXCEPT ![history_index + 1] = input_buffer]
                  ELSE history
    /\ history_edits' = history_edits
    /\ history_index' = r.index
    /\ input_buffer' = r.buffer
    /\ cursor' = IF r.result = "moved" THEN Len(r.buffer) ELSE cursor
    /\ last' = [op |-> "history_next", arg |-> prefix, result |-> r.result,
                from |-> history_index, text |-> input_buffer]
    /\ UNCHANGED history_prefix

history_next(prefix) ==
    LET r == next_result(prefix) IN
    /\ history_edits' = r.edits
    /\ history_index' = r.index
    /\ input_buffer' = r.buffer
    /\ cursor' = IF r.result = "moved" THEN Len(r.buffer) ELSE cursor
    /\ last' = [op |-> "history_next", arg |-> prefix, result |-> r.result,
                from |-> history_index, text |-> input_buffer]
    /\ UNCHANGED <<history, history_prefix>>

\* Mutant of the append of execute(): no comparison with the last item.
append_history_no_dedup(line) ==
    IF line # <<>> THEN Append(history, line) ELSE history

\* The line execute() saves: appended unless empty or equal to the last item.
append_history(line) ==
    IF line # <<>> /\ (history = <<>> \/ history[Len(history)] # line)
    THEN Append(history, line)
    ELSE history

\* What the execution of the base class may leave in the input buffer: the
\* buffer as it was, or the empty buffer of a new prompt.
engine_buffers(source) == {input_buffer, <<>>}

\* Mutant of the end of execute(): the edits and the index are reset only
\* when a line was appended.
reset_browsing_on_append(saved) ==
    IF saved = history
    THEN [edits |-> history_edits, index |-> history_index]
    ELSE [edits |-> NoEdits, index |-> Len(saved)]

\* The end of execute() when the line was executed and not hidden: the edits
\* are reset and the index moves past the last item, appended or not.
reset_browsing(saved) == [edits |-> NoEdits, index |-> Len(saved)]

\* Mutant of execute: a hidden line that was executed is saved like any other.
execute_hidden_saves(source, hidden, executed, buffer) ==
    LET captured == IF source = None THEN input_buffer ELSE source
        saved == IF executed THEN append_history(rstrip(captured))
                 ELSE history
        browsing == IF executed THEN reset_browsing(saved)
                    ELSE [edits |-> history_edits, index |-> history_index]
    IN
    /\ Len(saved) <= MaxHist
    /\ history' = saved
    /\ history_edits' = browsing.edits
    /\ history_index' = browsing.index
    /\ input_buffer' = buffer
    /\ cursor' = IF buffer = input_buffer THEN cursor ELSE Len(buffer)
    /\ last' = [op |-> "execute",
                arg |-> source,
                result |-> IF hidden THEN "hidden"
                           ELSE IF ~executed THEN "not_executed"
                           ELSE IF saved = history THEN "not_appended"
                           ELSE "appended",
                from |-> history_index,
                text |-> IF executed THEN captured ELSE None]
    /\ UNCHANGED history_prefix

\* Mutant of execute: the line is read from the input buffer after the base
\* class has run.
execute_captures_after(source, hidden, executed, buffer) ==
    LET captured == IF source = None THEN buffer ELSE source
        saved == IF executed /\ ~hidden THEN append_history(rstrip(captured))
                 ELSE history
        browsing == IF executed /\ ~hidden THEN reset_browsing(saved)
                    ELSE [edits |-> history_edits, index |-> history_index]
    IN
    /\ Len(saved) <= MaxHist
    /\ history' = saved
    /\ history_edits' = browsing.edits
    /\ history_index' = browsing.index
    /\ input_buffer' = buffer
    /\ cursor' = IF buffer = input_buffer THEN cursor ELSE Len(buffer)
    /\ last' = [op |-> "execute",
                arg |-> source,
                result |-> IF hidden THEN "hidden"
                           ELSE IF ~executed THEN "not_executed"
                           ELSE IF saved = history THEN "not_appended"
                           ELSE "appended",
                from |-> history_index,
                text |-> IF executed /\ ~hidden THEN captured ELSE None]
    /\ UNCHANGED history_prefix

\* execute(source, hidden): `executed` is the answer of the base class and
\* `buffer` the input buffer it leaves. The line is captured before the base
\* class runs.
execute(source, hidden, executed, buffer) ==
    LET captured == IF source = None THEN input_buffer ELSE source
        saved == IF executed /\ ~hidden THEN append_history(rstrip(captured))
                 ELSE history
        browsing == IF executed /\ ~hidden THEN reset_browsing(saved)
                    ELSE [edits |-> history_edits, index |-> history_index]
    IN
    /\ Len(saved) <= MaxHist
    /\ history' = saved
    /\ history_edits' = browsing.edits
    /\ history_index' = browsing.index
    /\ input_buffer' = buffer
    /\ cursor' = IF buffer = input_buffer THEN cursor ELSE Len(buffer)
    /\ last' = [op |-> "execute",
                arg |-> source,
                result |-> IF hidden THEN "hidden"
                           ELSE IF ~executed THEN "not_executed"
                           ELSE IF saved = history THEN "not_appended"
                           ELSE "appended",
                from |-> history_index,
                text |-> IF executed /\ ~hidden THEN captured ELSE None]
    /\ UNCHANGED history_prefix

\* Mutant of _set_history: the index is not moved to the end of the new list.
set_history_keeps_index(items) ==
    /\ history' = items
    /\ history_edits' = NoEdits
    /\ UNCHANGED history_index
    /\ last' = [op |-> "_set_history", arg |-> items, result |-> "none",
                from |-> history_index, text |-> None]
    /\ UNCHANGED <<history_prefix, input_buffer, cursor>>

\* Mutant of _set_history: the edits of the old list are kept.
set_history_keeps_edits(items) ==
    /\ history' = items
    /\ UNCHANGED history_edits
    /\ history_index' = Len(items)
    /\ last' = [op |-> "_set_history", arg |-> items, result |-> "none",
                from |-> history_index, text |-> None]
    /\ UNCHANGED <<history_prefix, input_buffer, cursor>>

\* _set_history(history)
set_history(items) ==
    /\ history' = items
    /\ history_edits' = NoEdits
    /\ history_index' = Len(items)
    /\ last' = [op |-> "_set_history", arg |-> items, result |-> "none",
                from |-> history_index, text |-> None]
    /\ UNCHANGED <<history_prefix, input_buffer, cursor>>

\* The cursor after movePosition(Right, n) from the start of the prompt.
move_right(buffer, n) == IF n < Len(buffer) THEN n ELSE Len(buffer)

\* Mutant of _up_pressed: a new search starts from the index browsed, not
\* from the end of the history.
up_pressed_keeps_index(first_line) ==
    IF first_line
    THEN LET col == cursor
             fresh == \/ history_index = Len(history)
                      \/ (history_prefix # <<>> /\ col # Len(history_prefix))
             index == history_index
             prefix == IF fresh THEN slice_to(input_buffer, col) ELSE history_prefix
             r == previous_result(index, prefix)
         IN
         /\ history_prefix' = prefix
         /\ history_edits' = r.edits
         /\ history_index' = r.index
         /\ input_buffer' = r.buffer
         /\ cursor' = IF prefix # <<>> THEN move_right(r.buffer, Len(prefix))
                      ELSE Len(r.buffer)
         /\ last' = [op |-> "_up_pressed", arg |-> prefix, result |-> r.result,
                     from |-> index, text |-> input_buffer]
         /\ UNCHANGED history
    ELSE /\ last' = [op |-> "_up_pressed", arg |-> None, result |-> "passed",
                     from |-> history_index, text |-> None]
         /\ UNCHANGED <<history, history_edits, history_index, history_prefix,
                        input_buffer, cursor>>

\* Mutant of _up_pressed: every press takes its prefix from the cursor
\* position.
up_pressed_new_prefix(first_line) ==
    IF first_line
    THEN LET col == cursor
             fresh == \/ history_index = Len(history)
                      \/ (history_prefix # <<>> /\ col # Len(history_prefix))
             index == IF fresh THEN Len(history) ELSE history_index
             prefix == slice_to(input_buffer, col)
             r == previous_result(index, prefix)
         IN
         /\ history_prefix' = prefix
         /\ history_edits' = r.edits
         /\ history_index' = r.index
         /\ input_buffer' = r.buffer
         /\ cursor' = IF prefix # <<>> THEN move_right(r.buffer, Len(prefix))
                      ELSE Len(r.buffer)
         /\ last' = [op |-> "_up_pressed", arg |-> prefix, result |-> r.result,
                     from |-> index, text |-> input_buffer]
         /\ UNCHANGED history
    ELSE /\ last' = [op |-> "_up_pressed", arg |-> None, result |-> "passed",
                     from |-> history_index, text |-> None]
         /\ UNCHANGED <<history, history_edits, history_index, history_prefix,
                        input_buffer, cursor>>

\* _up_pressed(): first_line says whether the cursor is on the line of the
\* prompt.
up_pressed(first_line) ==
    IF first_line
    THEN LET col == cursor
             fresh == \/ history_index = Len(history)
                      \/ (history_prefix # <<>> /\ col # Len(history_prefix))
             index == IF fresh THEN Len(history) ELSE history_index
             prefix == IF fresh THEN slice_to(input_buffer, col) ELSE history_prefix
             r == previous_result(index, prefix)
         IN
         /\ history_prefix' = prefix
         /\ history_edits' = r.edits
         /\ history_index' = r.index
         /\ input_buffer' = r.buffer
         /\ cursor' = IF prefix # <<>> THEN move_right(r.buffer, Len(prefix))
                      ELSE Len(r.buffer)
         /\ last' = [op |-> "_up_pressed", arg |-> prefix, result |-> r.result,
                     from |-> index, text |-> input_buffer]
         /\ UNCHANGED history
    ELSE /\ last' = [op |-> "_up_pressed", arg |-> None, result |-> "passed",
                     from |-> history_index, text |-> None]
         /\ UNCHANGED <<history, history_edits, history_index, history_prefix,
                        input_buffer, cursor>>

\* _down_pressed(): last_line says whether the cursor is on the last line of
\* the input. An IndexError of history_next leaves the handler at once.
down_pressed(last_line) ==
    IF last_line
    THEN LET r == next_result(history_prefix) IN
         /\ history_edits' = r.edits
         /\ history_index' = r.index
         /\ input_buffer' = r.buffer
         /\ cursor' = IF r.result = "raised" THEN cursor
                      ELSE IF history_prefix # <<>>
                           THEN move_right(r.buffer, Len(history_prefix))
                      ELSE IF r.result = "moved" THEN Len(r.buffer)
                      ELSE cursor
         /\ last' = [op |-> "_down_pressed", arg |-> history_prefix,
                     result |-> r.result, from |-> history_index,
                     text |-> input_buffer]
         /\ UNCHANGED <<history, history_prefix>>
    ELSE /\ last' = [op |-> "_down_pressed", arg |-> None, result |-> "passed",
                     from |-> history_index, text |-> None]
         /\ UNCHANGED <<history, history_edits, history_index, history_prefix,
                        input_buffer, cursor>>

\* s[start:] for a list s: a negative start counts from the end, and a start
\* before the first item is the first item.
slice_from(s, start) ==
    LET from0 == IF start < 0 THEN start + Len(s) ELSE start
        first == IF from0 < 0 THEN 0 ELSE from0
    IN SubSeq(s, first + 1, Len(s))

\* history_tail(n): self._history[-n:]; the call changes nothing, `last`
\* holds the list it returns.
history_tail(n) ==
    /\ last' = [op |-> "history_tail", arg |-> n, result |-> "none",
                from |-> history_index, text |-> slice_from(history, 0 - n)]
    /\ UNCHANGED <<history, history_edits, history_index, history_prefix,
                   input_buffer, cursor>>

\* The user types in the input buffer or moves the cursor.
edit_input(text, col) ==
    /\ input_buffer' = text
    /\ cursor' = col
    /\ last' = [op |-> "edit", arg |-> None, result |-> "none",
                from |-> history_index, text |-> None]
    /\ UNCHANGED <<history, history_edits, history_index, history_prefix>>

----------------------------------------------------------------------------
\* execute() uses source only for the line it saves (lines 34 and 39-44): a
\* call that is hidden or not executed changes the same whatever its source,
\* so it is made here with the source None alone; ExecuteAnySource makes it
\* with every source.
Execute ==
    \E hidden \in BOOLEAN, executed \in BOOLEAN :
        \E source \in (IF executed /\ ~hidden THEN Sources ELSE {None}) :
            \E buffer \in engine_buffers(source) :
                execute(source, hidden, executed, buffer)

\* execute() with any source, whether the call is hidden or executed.
ExecuteAnySource ==
    \E hidden \in BOOLEAN, executed \in BOOLEAN :
        \E source \in Sources :
            \E buffer \in engine_buffers(source) :
                execute(source, hidden, executed, buffer)

SetHistory == \E items \in Logs : set_history(items)

HistoryPrevious == \E prefix \in Str : history_previous(prefix)

HistoryNext == \E prefix \in Str : history_next(prefix)

UpPressed == \E first_line \in BOOLEAN : up_pressed(first_line)

DownPressed == \E last_line \in BOOLEAN : down_pressed(last_line)

EditInput == \E text \in Str : \E col \in 0..Len(text) : edit_input(text, col)

TypeInput == \E text \in Str : edit_input(text, Len(text))

HistoryTail == \E n \in 0..(MaxHist + 1) : history_tail(n)

\* The widget driven through its whole interface.
Next ==
    \/ Execute
    \/ SetHistory
    \/ HistoryPrevious
    \/ HistoryNext
    \/ UpPressed
    \/ DownPressed
    \/ EditInput

Spec == Init /\ [][Next]_vars

\* The widget driven by its keys: execute, _set_history, the up and down keys,
\* the user editing the input and moving the cursor in between.
NextKeys ==
    \/ Execute
    \/ SetHistory
    \/ UpPressed
    \/ DownPressed
    \/ EditInput

SpecKeys == Init /\ [][NextKeys]_vars

\* execute() with any source while the up key browses the history.
NextSources ==
    \/ ExecuteAnySource
    \/ SetHistory
    \/ UpPressed
    \/ EditInput

SpecSources == Init /\ [][NextSources]_vars

\* The history interface alone: execute, _set_history, history_previous and
\* history_next, the user typing in between.
NextCore ==
    \/ Execute
    \/ SetHistory
    \/ HistoryPrevious
    \/ HistoryNext
    \/ TypeInput

SpecCore == Init /\ [][NextCore]_vars

\* execute() alone, the user typing in between.
NextCommit ==
    \/ Execute
    \/ TypeInput

SpecCommit == Init /\ [][NextCommit]_vars

\* The whole interface with history_tail.
NextAll ==
    \/ Next
    \/ HistoryTail

SpecAll == Init /\ [][NextAll]_vars

\* The history list and its readers: execute, _set_history and history_tail.
NextTail ==
    \/ Execute
    \/ SetHistory
    \/ HistoryTail
    \/ TypeInput

SpecTail == Init /\ [][NextTail]_vars

----------------------------------------------------------------------------
\* The vocabulary of the properties, stated without the operators above.

N == Len(history)

\* p is a prefix of s
IsPrefix(p, s) == \E n \in 0..Len(s) : p = SubSeq(s, 1, n)

NoTrailingSpace(s) == s = <<>> \/ s[Len(s)] # " "

\* t is s without its trailing blanks
IsRightTrim(t, s) ==
    /\ IsPrefix(t, s)
    /\ NoTrailingSpace(t)
    /\ \A i \in (Len(t) + 1)..Len(s) : s[i] = " "

\* Index j has an effective text: an edit, or else a history item.
HasText(j) == j \in DOMAIN history_edits \/ (0 <= j /\ j < N)

EffectiveText(j) ==
    IF j \in DOMAIN history_edits THEN history_edits[j] ELSE history[j + 1]

Matches(j, prefix) == HasText(j) /\ IsPrefix(prefix, EffectiveText(j))

Indices == 0..N \cup DOMAIN history_edits

\* The step is a call of history_previous / history_next, and it moved.
PreviousStep == last'.op = "history_previous"
NextStep == last'.op = "history_next"
Moved == last'.result = "moved"
NavigationMoved == (PreviousStep \/ NextStep) /\ Moved

\* The step is an execute() that was executed and not hidden, which captured
\* the line last'.text; it is rejected when the trimmed line is empty or equal
\* to the last history item.
CommitStep == last'.op = "execute" /\ last'.result \in {"appended", "not_appended"}
RejectedLine(line) ==
    \E t \in {SubSeq(line, 1, n) : n \in 0..Len(line)} :
        /\ IsRightTrim(t, line)
        /\ (t = <<>> \/ (N > 0 /\ history[N] = t))
RejectedCommit == CommitStep /\ RejectedLine(last'.text)
AcceptedCommit == CommitStep /\ ~RejectedLine(last'.text)

----------------------------------------------------------------------------
\* C1: edits made while browsing are preserved. A navigation that moves away
\* from index i saves the text t of the input buffer under i and leaves the
\* history list alone; a navigation that lands on an index with a saved text
\* puts that text, not the history item, in the input buffer; and the text
\* saved under i stays until a navigation leaves i again or an execute or a
\* _set_history happens.
C1_EditsPreserved ==
    [][ /\ NavigationMoved =>
            /\ history_index \in DOMAIN history_edits'
            /\ history_edits'[history_index] = input_buffer
            /\ history' = history
            /\ history_index' \in DOMAIN history_edits =>
                    input_buffer' = history_edits[history_index']
        /\ \A i \in DOMAIN history_edits :
              (i \notin DOMAIN history_edits' \/ history_edits'[i] # history_edits[i])
                => \/ NavigationMoved /\ history_index = i
                   \/ last'.op \in {"execute", "_set_history"}
      ]_vars

\* A navigation has landed on a history item whose saved edit differs from
\* the item, and the input buffer shows the edit.
C1_Witness ==
    /\ last.op \in {"history_previous", "history_next"}
    /\ last.result = "moved"
    /\ history_index < N
    /\ history_index \in DOMAIN history_edits
    /\ history_edits[history_index] # history[history_index + 1]
    /\ input_buffer = history_edits[history_index]

\* C2: round trip. A history_previous(prefix) that moved from index N with the
\* input buffer B, followed at once by history_next(prefix), puts B back in
\* the input buffer and the index back at N, for every B and every prefix.
C2_RoundTrip ==
    [][ ( /\ last.op = "history_previous"
          /\ last.result = "moved"
          /\ last.from = N
          /\ NextStep
          /\ last'.arg = last.arg )
        => ( /\ Moved
             /\ input_buffer' = last.text
             /\ history_index' = N )
      ]_vars

\* C3: history_next never raises. Called with index < N when no index above
\* the index has an effective text starting with the prefix (none strictly
\* between the index and N, and no saved text at N or above either), it
\* reports failure and leaves history, index, edits and input buffer as they
\* were.
C3_NextNeverRaises ==
    [][ ( /\ NextStep
          /\ history_index < N
          /\ ~ \E j \in Indices : j > history_index /\ Matches(j, last'.arg) )
        => ( /\ last'.result = "nomatch"
             /\ UNCHANGED <<history, history_index, history_edits, input_buffer>> )
      ]_vars

\* C4 as stated: a rejected commit leaves history, edits and index as they
\* were.
C4_RejectedChangesNothing ==
    [][ RejectedCommit => UNCHANGED <<history, history_edits, history_index>> ]_vars

\* C4, amended: a rejected commit leaves the history list as it was, and like
\* an accepted one it empties the edits and moves the index to N.
C4_RejectedResetsBrowsing ==
    [][ RejectedCommit =>
            /\ history' = history
            /\ history_edits' = NoEdits
            /\ history_index' = N
      ]_vars

\* A rejected commit made while browsing, with edits saved: the index is back
\* at N and the edits are gone.
C4_Witness ==
    /\ last.op = "execute"
    /\ last.result = "not_appended"
    /\ last.from < N
    /\ history_index = N
    /\ history_edits = NoEdits

\* C5: after commits only, the history holds no empty text, no text with
\* trailing whitespace and no two adjacent equal texts.
C5_LogSanitised ==
    /\ \A i \in 1..N : history[i] # <<>> /\ NoTrailingSpace(history[i])
    /\ \A i \in 1..(N - 1) : history[i] # history[i + 1]

\* Two items were committed, the second from a source with a trailing blank.
C5_Witness ==
    /\ N = 2
    /\ last.op = "execute"
    /\ last.result = "appended"
    /\ last.text # <<>>
    /\ last.text[Len(last.text)] = " "

\* C6 as stated: the keys of the edits lie in 0..N-1.
C6_KeysBelowN == DOMAIN history_edits \subseteq 0..(N - 1)

\* C6, amended: the keys of the edits lie in 0..N, and a history_previous
\* (called directly or by an up-press) that moves away from index N saves the
\* input buffer under the key N.
C6_KeysUpToN ==
    /\ DOMAIN history_edits \subseteq 0..N
    /\ ( /\ last.op \in {"history_previous", "_up_pressed"}
          /\ last.result = "moved"
          /\ last.from = N )
        => ( /\ N \in DOMAIN history_edits
             /\ history_edits[N] = last.text )

\* history_previous has moved away from index N with a non-empty input buffer.
C6_Witness ==
    /\ last.op = "history_previous"
    /\ last.result = "moved"
    /\ last.from = N
    /\ last.text # <<>>
    /\ N \in DOMAIN history_edits

\* C7: a navigation that moves lands on the nearest index whose effective text
\* starts with the prefix (the greatest one below the index for
\* history_previous, the smallest one above it for history_next) and puts
\* that effective text in the input buffer.
C7_NearestMatch ==
    [][ /\ (PreviousStep /\ Moved) =>
            /\ history_index' < history_index
            /\ Matches(history_index', last'.arg)
            /\ \A j \in Indices :
                  (history_index' < j /\ j < history_index) => ~Matches(j, last'.arg)
            /\ input_buffer' = EffectiveText(history_index')
        /\ (NextStep /\ Moved) =>
            /\ history_index' > history_index
            /\ Matches(history_index', last'.arg)
            /\ \A j \in Indices :
                  (history_index < j /\ j < history_index') => ~Matches(j, last'.arg)
            /\ input_buffer' = EffectiveText(history_index')
      ]_vars

\* A prefix search has skipped an item that does not start with the prefix
\* and landed on one that does.
C7_Witness ==
    /\ last.op = "history_previous"
    /\ last.result = "moved"
    /\ last.arg # <<>>
    /\ history_index + 1 < last.from
    /\ ~Matches(history_index + 1, last.arg)
    /\ IsPrefix(last.arg, input_buffer)

\* C8: a history_previous that finds no match (the index is 0, or no index
\* below it has an effective text starting with the prefix) reports failure
\* and leaves history, index, edits and input buffer as they were.
C8_FailedPreviousNoOp ==
    [][ ( /\ PreviousStep
          /\ ~ \E j \in 0..(history_index - 1) : Matches(j, last'.arg) )
        => ( /\ last'.result = "nomatch"
             /\ UNCHANGED <<history, history_index, history_edits, input_buffer>> )
      ]_vars

\* history_previous has failed below a non-zero index, with items below it.
C8_Witness ==
    /\ last.op = "history_previous"
    /\ last.result = "nomatch"
    /\ last.from > 0
    /\ history_index = last.from
    /\ input_buffer # <<>>

\* C9: an accepted commit appends the right-trimmed line to the history,
\* empties the edits and moves the index to the new length.
C9_AcceptedCommit ==
    [][ AcceptedCommit =>
            /\ Len(history') = N + 1
            /\ SubSeq(history', 1, N) = history
            /\ IsRightTrim(history'[N + 1], last'.text)
            /\ history_edits' = NoEdits
            /\ history_index' = N + 1
      ]_vars

\* A line with a trailing blank was committed while browsing.
C9_Witness ==
    /\ last.op = "execute"
    /\ last.result = "appended"
    /\ last.from < N - 1
    /\ last.text # history[N]
    /\ history_edits = NoEdits
    /\ history_index = N

\* C10: 0 <= _history_index <= len(_history) in every state.
C10_IndexInRange == 0 <= history_index /\ history_index <= N

\* A down-press has moved the index from the last item back to N.
C10_Witness ==
    /\ N > 0
    /\ last.op = "_down_pressed"
    /\ last.result = "moved"
    /\ last.from = N - 1
    /\ history_index = N

\* C11: history_tail(n) returns the last min(n, N) items of the history in
\* their order, for every n >= 0: no item for n = 0, and never more than n.
C11_TailIsLastN ==
    last.op = "history_tail" =>
        LET k == IF last.arg < N THEN last.arg ELSE N IN
        /\ last.text = SubSeq(history, N - k + 1, N)
        /\ Len(last.text) <= last.arg

\* C12: the history list is append-only between resets. history_previous,
\* history_next, history_tail and the up and down key handlers leave it as it
\* is (no edit is ever written into it), and execute leaves its items as they
\* are and appends at most one.
C12_AppendOnly ==
    [][ /\ last'.op \in {"history_previous", "history_next", "history_tail",
                         "_up_pressed", "_down_pressed"}
            => history' = history
        /\ last'.op = "execute"
            => /\ Len(history') \in {N, N + 1}
               /\ SubSeq(history', 1, N) = history
      ]_vars

\* An up-press has moved while an edit that differs from its history item is
\* saved: the item is still in the history.
C12_Witness ==
    /\ last.op = "_up_pressed"
    /\ last.result = "moved"
    /\ \E j \in DOMAIN history_edits : j < N /\ history_edits[j] # history[j + 1]
\* C13: _set_history(items), from any state, leaves the history equal to items
\* as given (an empty item or a repeated item is kept), no edit, and the index
\* at the length of items; after _set_history([]) the index is 0 and
\* history_tail(n) returns no item for every n.
C13_SetHistory ==
    [][ /\ last'.op = "_set_history"
            => /\ history' = last'.arg
               /\ DOMAIN history_edits' = {}
               /\ history_index' = Len(last'.arg)
               /\ last'.arg = <<>> => history_index' = 0
        /\ (last.op = "_set_history" /\ last.arg = <<>> /\ last'.op = "history_tail")
            => last'.text = <<>>
      ]_vars

\* _set_history was called with a list of two items that repeats an item and
\* holds an empty one.
C13_Witness ==
    /\ last.op = "_set_history"
    /\ N = 2
    /\ history[1] = history[2]
    /\ history[1] = <<>>

\* C14: every _up_pressed that moves saves the input buffer it started from
\* in the edits, under the index the widget was at before the key was
\* pressed, also when the press starts a new prefix search.
C14_UpSavesAtOldIndex ==
    [][ (last'.op = "_up_pressed" /\ last'.result = "moved")
            => /\ history_index \in DOMAIN history_edits'
               /\ history_edits'[history_index] = input_buffer
      ]_vars

\* The step is an _up_pressed that searched (the cursor was on the line of the
\* prompt); UpAfterUp: so was the step before it, nothing in between.
UpStep == last'.op = "_up_pressed" /\ last'.result # "passed"
UpAfterUp == UpStep /\ last.op = "_up_pressed" /\ last.result # "passed"

\* The press starts a new search: the prefix becomes the input buffer up to
\* the cursor and the search starts from N.
NewSearch ==
    /\ history_prefix' = SubSeq(input_buffer, 1, cursor)
    /\ last'.from = N

\* The press goes on with the search: same prefix, the index not moved to N
\* first, and when it moves it moves down to a text that starts with the
\* prefix.
SameSearch ==
    /\ history_prefix' = history_prefix
    /\ last'.from = history_index
    /\ Moved => /\ history_index' < history_index
                /\ IsPrefix(history_prefix, input_buffer')

\* C15 as stated: an _up_pressed at index N, or with a recorded prefix that is
\* not empty and whose length is not the cursor column, starts a new search;
\* every _up_pressed that follows an _up_pressed goes on with the search.
C15_PrefixPersists ==
    [][ /\ (UpStep /\ (history_index = N
                        \/ (history_prefix # <<>> /\ cursor # Len(history_prefix))))
            => NewSearch
        /\ UpAfterUp => SameSearch
      ]_vars

\* C15, amended: an _up_pressed that follows an _up_pressed goes on with the
\* search once the index is below N; an _up_pressed at index N always starts a
\* new search.
C15_PrefixPersistsBelowN ==
    [][ /\ (UpStep /\ (history_index = N
                        \/ (history_prefix # <<>> /\ cursor # Len(history_prefix))))
            => NewSearch
        /\ (UpAfterUp /\ history_index < N) => SameSearch
      ]_vars

\* An _up_pressed went on with a search for "a" that an _up_pressed before it
\* had started from N: it moved from index 1 to index 0.
C15_Witness ==
    /\ last.op = "_up_pressed"
    /\ last.result = "moved"
    /\ N = 2
    /\ last.from = 1
    /\ history_index = 0
    /\ history_prefix = <<"a">>
    /\ 2 \in DOMAIN history_edits

\* C16: when only execute, _set_history and the up and down keys drive the
\* widget, with any edit of the input and any cursor move in between, a
\* _down_pressed never raises: whenever the index is below N, the edits hold
\* a text for N that starts with the recorded prefix.
C16_DownNeverRaises ==
    /\ ~(last.op = "_down_pressed" /\ last.result = "raised")
    /\ history_index < N
        => /\ N \in DOMAIN history_edits
           /\ IsPrefix(history_prefix, history_edits[N])

\* A _down_pressed with the prefix "a" has left index 0 and come to N = 2,
\* the text saved for N: the history item in between does not start with "a".
C16_Witness ==
    /\ last.op = "_down_pressed"
    /\ last.result = "moved"
    /\ history_prefix = <<"a">>
    /\ N = 2
    /\ last.from = 0
    /\ history_index = N

\* C17: under execute, _set_history, history_previous and history_next with
\* any prefix, every key of the edits lies in 0..N, and whenever the index is
\* below N the edits hold, under the key N, the input buffer as it was when
\* the index last left N: a step that leaves N saves the input buffer there,
\* and no step that stays below N changes it.
C17_LiveLineKept ==
    [][ /\ DOMAIN history_edits' \subseteq 0..Len(history')
        /\ history_index' < Len(history')
            => /\ Len(history') \in DOMAIN history_edits'
               /\ history_edits'[Len(history')] =
                      IF history_index = N THEN input_buffer
                      ELSE history_edits[N]
      ]_vars

\* history_next has moved between two indices below N while the edits hold a
\* text for N that is not the input buffer shown.
C17_Witness ==
    /\ last.op = "history_next"
    /\ last.result = "moved"
    /\ history_index < N
    /\ N \in DOMAIN history_edits
    /\ history_edits[N] # <<>>
    /\ history_edits[N] # input_buffer

\* C18: an execute() that is hidden, or that the base class did not execute,
\* leaves the history, the edits, the index and the prefix as they were,
\* whatever its source.
C18_HiddenChangesNothing ==
    [][ (last'.op = "execute" /\ last'.result \in {"hidden", "not_executed"})
            => UNCHANGED <<history, history_edits, history_index, history_prefix>>
      ]_vars

\* A hidden execute() was called with a source that is no item of the
\* history, while an earlier item was browsed with a prefix and an edit saved.
C18_Witness ==
    /\ last.op = "execute"
    /\ last.result = "hidden"
    /\ last.arg = <<"a", "b">>
    /\ history_index < N
    /\ history_prefix # <<>>
    /\ DOMAIN history_edits # {}
    /\ \A j \in 1..N : history[j] # last.arg

\* C19: the line an execute() saves is the text it had when it was called,
\* the source if one is given and the input buffer of that moment if not,
\* without its trailing blanks; what the base class does to the input buffer
\* while it executes changes neither the item appended nor whether one is.
C19_LineCapturedBefore ==
    [][ CommitStep =>
            LET line == IF last'.arg = None THEN input_buffer ELSE last'.arg IN
            IF RejectedLine(line)
            THEN history' = history
            ELSE /\ Len(history') = N + 1
                 /\ IsRightTrim(history'[N + 1], line)
      ]_vars

\* execute() without a source has appended the input buffer while the base
\* class emptied it.
C19_Witness ==
    /\ last.op = "execute"
    /\ last.result = "appended"
    /\ last.arg = None
    /\ input_buffer = <<>>
    /\ history[N] # input_buffer

====
